---- MODULE Spec2Model ----
(***************************************************************************)
(* musualiser: the capture-to-spectrum pipeline.                           *)
(*                                                                         *)
(* Two sample sources feed the spectrum analysis:                          *)
(*   - the application loopback capture thread (app_audio_manager.rs),     *)
(*     owned by the controller AppAudioManager;                            *)
(*   - the file filter FftFilter (file_audio_manager.rs), an iterator     *)
(*     adaptor that analyses the decoded stream while it is played.        *)
(* The two share no state, so a behaviour of the model follows one of them *)
(* (variable source).                                                      *)
(*                                                                         *)
(* Sample values are not modelled as numbers: a byte of the capture stream *)
(* is its position in the stream, a sample is the tuple of the four bytes  *)
(* it was converted from, a sample of a decoded file is its position in    *)
(* the interleaved stream.  Every window can therefore be compared with    *)
(* the part of the stream it must hold.                                    *)
(***************************************************************************)
EXTENDS Integers, Sequences, FiniteSets, TLC

\* ---------------------------------------------------------------- bounds
\* The capture format's sample rate, scaled down (the code asks for 44100,
\* which gives a window of 8820 samples; 20 gives a window of 4).
LiveRate == 20
\* Frames the capture clients deliver, all together, before the audio stops.
MaxFrames == 5
\* Largest number of frames one read of the device returns.
MaxBurst == 2
\* Capture threads the controller may spawn in one behaviour.
MaxThreads == 2
\* Changes of the default render device in one behaviour.
MaxDevChanges == 1
\* Render devices and audio-producing processes.
Devices == {1, 2}
Pids == {1, 2}
\* Decoded file streams: channel counts, sample rates and length (in
\* interleaved samples).
MaxChannels == 2
MaxRaw == 26
FileRates == {15, 20, 30, 40}
\* perform_fft on its own: the sample rates it is built for, and how many
\* successive windows of a stream it is given.
FftRates == {20, 25, 40, 100, 105, 210, 250, 1000, 8000, 22050, 44100, 48000}
MaxWindows == 3
\* the frequencies (Hz) of the pure tones given to perform_fft
Tones == {440, 1000, 5000, 12000}
\* The renderer on its own: the batches it is given have up to MaxBins bins,
\* at 30, 40, ... Hz, with every choice of magnitudes 0..MaxMag, or LongBins
\* bins, enough for the later buckets to hold several bins; the viewport
\* sizes it is called with.
MaxBins == 2
LongBins == 200
MaxMag == 1
Sizes == {<<2, 4>>, <<4, 12>>}
\* The song list: up to MaxSongs paths out of Paths, one of which, BadPath,
\* cannot be opened or decoded.
MaxSongs == 2
Paths == {"a.mp3", "b.wav", "bad.mp3"}
BadPath == "bad.mp3"

\* ------------------------------------------------------- program constants
FFT_FREQUENCY == 5
\* bytes of one frame of the capture format (32-bit float, one channel)
BlockAlign == 4
\* bytes of one f32
F32Bytes == 4
U16 == 65536
\* the audible range kept by retain, in Hz
LowCut == 20
HighCut == 20000
\* the number the mel range is divided by
Buckets == 150
\* usize::MAX, the index FileAudioManager::new starts with: a number no index
\* of a list reaches
UsizeMax == 2147483647

Threads == 1..MaxThreads
NoThread == 0
NoPid == 0

VARIABLES
    source,             \* "app" | "file": the source this behaviour follows
    \* --- AppAudioManager (controller)
    current_handle,     \* id of the thread last spawned, NoThread before
    playing,            \* the gate boolean inside Arc<(Mutex<bool>, Condvar)>
    mutex,              \* holder of the gate mutex: NoThread when free
    device_change,      \* the thread whose channel the controller's Receiver reads
    current_pid,        \* Option<Pid>
    \* --- capture threads
    pc,                 \* position of each thread
    device_id,          \* device identity bound in AudioThread::new
    pid,                \* process the thread was spawned for
    planned,            \* length the FFT was planned for
    streaming,          \* the audio client's stream is started
    sample_queue,       \* VecDeque<u8>
    data,               \* Vec<f32> being filled
    delivered,          \* bytes the device has handed to this client so far
    notif,              \* messages waiting in each thread's device_change channel
    sample_destination, \* the batch channel: batches sent so far
    \* --- environment
    defaultDevice,      \* identity of the default render device
    devChanges,         \* number of default-device changes so far
    frames,             \* frames delivered so far, over all capture clients
    \* --- file filter
    f_channels, f_rate, \* what the decoder reports
    f_planned,          \* length the file's FFT was planned for
    f_pos,              \* interleaved samples read from the decoder
    internal_vector,    \* Vec<Complex<f32>> being filled
    counter,            \* u16 sample counter
    output_vector,      \* the shared slot the filter writes batches to
    \* --- history (not program state)
    lastCtl,            \* the most recent of new, start() and stop()
    started,            \* start() has been called
    cause,              \* why each thread was spawned
    exitCause,          \* why each thread left capture_loop
    nAnalysed,          \* perform_fft calls of each thread
    lastWindow,         \* argument of each thread's last perform_fft call
    consumed,           \* samples each thread has appended to data
    f_nAnalysed, f_lastWindow, f_taken,
    \* --- FftRenderer (the consumer of the shared slot)
    slot_holder,        \* holder of the slot's mutex: "none" when free
    r_pc,               \* position of the render tick inside data_preprocess
    current_render_data,\* what the last post-processing produced
    current_size,       \* the viewport size of the last render
    r_fresh,            \* history: a batch was stored since the last render
    r_buckets,          \* history: averaged_data of the last post-processing
    r_recomputed,       \* history: the last render ran the post-processing
    r_resized,          \* history: the last render called resize
    \* --- the peers of the capture side
    ctl_alive,          \* the AppAudioManager has not been dropped
    rx_alive,           \* the Receiver of the batch channel has not been dropped
    budget,             \* frames the capture clients deliver before the audio stops
    analysed,           \* history: batches in the order their transform was run
    \* --- one perform_fft call looked at on its own
    fft_path,           \* "live" (FftHandler) | "file" (FftFilter) | "none"
    fft_rate,           \* sample_rate of the handler
    fft_data,           \* the window handed in
    fft_half,           \* history: the bins left by the drain, before the retain
    fft_batch,          \* the batch handed off
    fft_tone,           \* the stream is a pure sine of this many Hz (0: any signal)
    \* --- FileAudioManager (the song list and the sink)
    opened_songs,       \* the paths of the opened songs
    selected_song_idx,  \* index (from 0) of the selected song, UsizeMax at first
    sink,               \* the sources queued in the rodio Sink: the path of each
    sink_paused,        \* Sink::is_paused
    song_pc             \* "run" | "panicked": an unwrap of the manager has failed

ctlVars == <<current_handle, playing, mutex, device_change, current_pid>>
thrVars == <<pc, device_id, pid, planned, streaming, sample_queue, data,
             delivered, notif, sample_destination>>
envVars == <<defaultDevice, devChanges, frames>>
fileVars == <<f_channels, f_rate, f_planned, f_pos, internal_vector, counter, output_vector,
              f_nAnalysed, f_lastWindow, f_taken>>
histVars == <<lastCtl, started, cause, exitCause, nAnalysed, lastWindow, consumed>>
renderVars == <<slot_holder, r_pc, current_render_data, current_size, r_fresh,
                r_buckets, r_recomputed, r_resized>>
peerVars == <<ctl_alive, rx_alive, budget, analysed>>
fftVars == <<fft_path, fft_rate, fft_data, fft_half, fft_batch, fft_tone>>
songVars == <<opened_songs, selected_song_idx, sink, sink_paused, song_pc>>
vars == <<source, ctlVars, thrVars, envVars, fileVars, histVars, renderVars, peerVars,
          fftVars, songVars>>

\* ---------------------------------------------------------------- helpers
Min(a, b) == IF a < b THEN a ELSE b

\* A conversion that loses the last sample of every run.
ChunksDropLast(bytes) ==
    [i \in 1..((Len(bytes) \div F32Bytes) - 1) |->
        SubSeq(bytes, F32Bytes * (i - 1) + 1, F32Bytes * i)]

\* slice.chunks(4) followed by f32::from_ne_bytes: a sample is the four bytes
\* it is made of (the conversion is a bijection on bit patterns).
Chunks(bytes) ==
    [i \in 1..(Len(bytes) \div F32Bytes) |->
        SubSeq(bytes, F32Bytes * (i - 1) + 1, F32Bytes * i)]

\* The bytes the device hands over: byte number k of a client's stream is k.
DeviceBytes(from, n) == [i \in 1..n |-> from + i - 1]

\* The k-th sample (from 0) of a capture stream.
StreamSample(k) == DeviceBytes(F32Bytes * k, F32Bytes)

\* chunk_size, and the length handed to plan_fft_forward
ChunkSize(rate) == rate \div FFT_FREQUENCY

\* A drain of the first half instead of the first quarter.
DrainHalf(v) == SubSeq(v, (Len(v) \div 2) + 1, Len(v))

\* Vec::drain(0..len / 4): what stays in the vector
DrainQuarter(v) == SubSeq(v, (Len(v) \div 4) + 1, Len(v))

NoCause == [kind |-> "none", prev |-> NoThread, after |-> "none"]

\* ------------------------------------------------------------------- Init
\* AppAudioManager::new: no thread, gate false, a Receiver whose Sender was
\* dropped at once.  FftFilter::new: counter 0, empty vector.
Constructed(sources) ==
    /\ source \in sources
    /\ current_handle = NoThread
    /\ playing = FALSE
    /\ mutex = NoThread
    /\ device_change = NoThread
    /\ current_pid = NoPid
    /\ pc = [t \in Threads |-> "unborn"]
    /\ device_id = [t \in Threads |-> 0]
    /\ pid = [t \in Threads |-> NoPid]
    /\ planned = [t \in Threads |-> 0]
    /\ streaming = [t \in Threads |-> FALSE]
    /\ sample_queue = [t \in Threads |-> <<>>]
    /\ data = [t \in Threads |-> <<>>]
    /\ delivered = [t \in Threads |-> 0]
    /\ notif = [t \in Threads |-> 0]
    /\ sample_destination = <<>>
    /\ defaultDevice = 1
    /\ devChanges = 0
    /\ frames = 0
    /\ IF source = "file"
         THEN f_channels \in 1..MaxChannels /\ f_rate \in FileRates
         ELSE f_channels = 1 /\ f_rate = LiveRate
    /\ f_planned = f_rate \div FFT_FREQUENCY
    /\ f_pos = 0
    /\ internal_vector = <<>>
    /\ counter = 0
    /\ output_vector = <<>>
    /\ lastCtl = "new"
    /\ started = FALSE
    /\ cause = [t \in Threads |-> NoCause]
    /\ exitCause = [t \in Threads |-> "none"]
    /\ nAnalysed = [t \in Threads |-> 0]
    /\ lastWindow = [t \in Threads |-> <<>>]
    /\ consumed = [t \in Threads |-> 0]
    /\ f_nAnalysed = 0
    /\ f_lastWindow = <<>>
    /\ f_taken = <<>>
    /\ slot_holder = "none"
    /\ r_pc = "idle"
    /\ current_render_data = <<>>
    /\ current_size = <<0, 0>>
    /\ r_fresh = FALSE
    /\ r_buckets = <<>>
    /\ r_recomputed = FALSE
    /\ r_resized = FALSE
    /\ ctl_alive = TRUE
    /\ rx_alive = TRUE
    /\ analysed = <<>>
    /\ opened_songs = <<>>
    /\ selected_song_idx = UsizeMax
    /\ sink = <<>>
    /\ sink_paused = FALSE
    /\ song_pc = "run"

\* No perform_fft call is looked at on its own.
FftIdle ==
    /\ fft_path = "none"
    /\ fft_rate = 0
    /\ fft_data = <<>>
    /\ fft_half = <<>>
    /\ fft_batch = <<>>
    /\ fft_tone = 0

Init ==
    /\ Constructed({"app", "file"})
    /\ budget = MaxFrames
    /\ FftIdle

\* ------------------------------------------------------------- controller
\* A notification that reaches no waiting thread.
NotifyLost(p) == p

\* Condvar::notify_all: every thread blocked in wait() is woken and has to
\* take the mutex again.
Woken(p) ==
    [t \in Threads |-> IF p[t] = "waiting0" THEN "wake0"
                       ELSE IF p[t] = "waiting1" THEN "wake1" ELSE p[t]]

\* Every error of try_recv taken for a disconnected channel.
TryRecvAnyErr ==
    IF device_change # NoThread /\ notif[device_change] > 0 THEN "Ok" ELSE "Disconnected"

\* Receiver::try_recv on the controller's device_change receiver.  A thread's
\* Sender lives from the spawn (it is moved into the closure) until the thread
\* has ended.
TryRecv ==
    IF device_change # NoThread /\ notif[device_change] > 0 THEN "Ok"
    ELSE IF device_change = NoThread \/ pc[device_change] = "done" THEN "Disconnected"
    ELSE "Empty"

\* The receive itself: an Ok takes the message out of the channel.
Received ==
    IF TryRecv = "Ok" THEN [notif EXCEPT ![device_change] = @ - 1] ELSE notif

\* History is kept for the threads that run and for the one the controller
\* watches: an ended thread's exit cause is forgotten once it is replaced.
Forget(h, t) ==
    IF t # NoThread /\ pc[t] = "done" THEN [h EXCEPT ![t] = "none"] ELSE h

\* create_thread building a new gate instead of cloning the shared one.
CreateThreadFreshGate(p, why) ==
    LET t == current_handle + 1 IN
    /\ current_handle < MaxThreads
    /\ current_pid' = p
    /\ device_change' = t
    /\ current_handle' = t
    /\ pc' = [pc EXCEPT ![t] = "new"]
    /\ pid' = [pid EXCEPT ![t] = p]
    /\ cause' = [cause EXCEPT ![t] =
                    [kind |-> why, prev |-> device_change,
                     after |-> IF device_change = NoThread THEN "none"
                               ELSE exitCause[device_change]]]
    /\ notif' = Received
    /\ exitCause' = Forget(exitCause, device_change)
    /\ playing' = FALSE
    /\ UNCHANGED mutex

\* create_thread keeping the old device_change receiver.
CreateThreadKeepsReceiver(p, why) ==
    LET t == current_handle + 1 IN
    /\ current_handle < MaxThreads
    /\ current_pid' = p
    /\ current_handle' = t
    /\ pc' = [pc EXCEPT ![t] = "new"]
    /\ pid' = [pid EXCEPT ![t] = p]
    /\ cause' = [cause EXCEPT ![t] =
                    [kind |-> why, prev |-> device_change,
                     after |-> IF device_change = NoThread THEN "none"
                               ELSE exitCause[device_change]]]
    /\ notif' = Received
    /\ exitCause' = Forget(exitCause, device_change)
    /\ UNCHANGED <<playing, mutex, device_change>>

\* AppAudioManager::create_thread(pid): clones the gate, the planner and the
\* batch sender, replaces the device_change receiver and spawns the thread.
CreateThread(p, why) ==
    LET t == current_handle + 1 IN
    /\ current_handle < MaxThreads
    /\ current_pid' = p
    /\ device_change' = t
    /\ current_handle' = t
    /\ pc' = [pc EXCEPT ![t] = "new"]
    /\ pid' = [pid EXCEPT ![t] = p]
    /\ cause' = [cause EXCEPT ![t] =
                    [kind |-> why, prev |-> device_change,
                     after |-> IF device_change = NoThread THEN "none"
                               ELSE exitCause[device_change]]]
    /\ notif' = Received
    /\ exitCause' = Forget(exitCause, device_change)
    /\ UNCHANGED <<playing, mutex>>

\* AppAudioManager::check_device(pid)
CheckDevice(p) ==
    IF TryRecv = "Empty"
      THEN UNCHANGED <<ctlVars, pc, pid, cause, notif, exitCause>>
      ELSE CreateThread(p, IF TryRecv = "Ok" THEN "notified" ELSE "disconnected")

\* start() reviving the thread itself when the channel is disconnected.
StartRevives ==
    /\ source = "app"
    /\ ctl_alive
    /\ mutex = NoThread
    /\ playing' = TRUE
    /\ lastCtl' = "start"
    /\ started' = TRUE
    /\ IF TryRecv = "Disconnected" /\ current_handle < MaxThreads
         THEN LET t == current_handle + 1 IN
              /\ current_handle' = t
              /\ device_change' = t
              /\ pc' = [Woken(pc) EXCEPT ![t] = "new"]
              /\ pid' = [pid EXCEPT ![t] = current_pid]
              /\ cause' = [cause EXCEPT ![t] =
                              [kind |-> "disconnected", prev |-> device_change,
                               after |-> IF device_change = NoThread THEN "none"
                                         ELSE exitCause[device_change]]]
              /\ exitCause' = Forget(exitCause, device_change)
         ELSE /\ pc' = Woken(pc)
              /\ UNCHANGED <<current_handle, device_change, pid, cause, exitCause>>
    /\ UNCHANGED <<source, mutex, current_pid>>
    /\ UNCHANGED <<device_id, planned, streaming, sample_queue, data,
                   delivered, notif, sample_destination>>
    /\ UNCHANGED <<envVars, fileVars, nAnalysed, lastWindow, consumed>>
    /\ UNCHANGED <<renderVars, peerVars, fftVars, songVars>>

\* AppAudioManager::start
Start ==
    /\ source = "app"
    /\ ctl_alive
    /\ mutex = NoThread
    /\ playing' = TRUE
    /\ pc' = Woken(pc)
    /\ lastCtl' = "start"
    /\ started' = TRUE
    /\ UNCHANGED <<source, current_handle, mutex, device_change, current_pid>>
    /\ UNCHANGED <<device_id, pid, planned, streaming, sample_queue, data,
                   delivered, notif, sample_destination>>
    /\ UNCHANGED <<envVars, fileVars, cause, exitCause, nAnalysed,
                   lastWindow, consumed>>
    /\ UNCHANGED <<renderVars, peerVars, fftVars, songVars>>

\* AppAudioManager::stop
Stop ==
    /\ source = "app"
    /\ ctl_alive
    /\ mutex = NoThread
    /\ playing' = FALSE
    /\ pc' = Woken(pc)
    /\ lastCtl' = "stop"
    /\ UNCHANGED started
    /\ UNCHANGED <<source, current_handle, mutex, device_change, current_pid>>
    /\ UNCHANGED <<device_id, pid, planned, streaming, sample_queue, data,
                   delivered, notif, sample_destination>>
    /\ UNCHANGED <<envVars, fileVars, cause, exitCause, nAnalysed,
                   lastWindow, consumed>>
    /\ UNCHANGED <<renderVars, peerVars, fftVars, songVars>>

\* AppAudioManager::is_playing: the value read under the lock.
is_playing == playing

\* AppAudioManager::update((name, pid)): check_device(pid), then a comparison
\* with current_pid that returns either way.
Update(p) ==
    /\ source = "app"
    /\ ctl_alive
    /\ CheckDevice(p)
    /\ UNCHANGED <<source, device_id, planned, streaming, sample_queue, data,
                   delivered, sample_destination>>
    /\ UNCHANGED <<envVars, fileVars, lastCtl, started, nAnalysed, lastWindow, consumed>>
    /\ UNCHANGED <<renderVars, peerVars, fftVars, songVars>>

\* The default render device changes (the user picks another output).
DeviceChange(d) ==
    /\ source = "app"
    /\ devChanges < MaxDevChanges
    /\ d # defaultDevice
    /\ defaultDevice' = d
    /\ devChanges' = devChanges + 1
    /\ UNCHANGED frames
    /\ UNCHANGED <<source, ctlVars, thrVars, fileVars, histVars>>
    /\ UNCHANGED <<renderVars, peerVars, fftVars, songVars>>

\* The AppAudioManager goes out of scope: its device_change Receiver, its
\* clone of the batch Sender and the JoinHandle are dropped; a thread that
\* runs is detached and keeps running.
DropController ==
    /\ source = "app"
    /\ ctl_alive
    /\ ctl_alive' = FALSE
    /\ device_change' = NoThread
    /\ exitCause' = Forget(exitCause, device_change)
    /\ UNCHANGED <<rx_alive, budget, analysed>>
    /\ UNCHANGED <<source, current_handle, playing, mutex, current_pid>>
    /\ UNCHANGED <<thrVars, envVars, fileVars, renderVars, fftVars, songVars>>
    /\ UNCHANGED <<lastCtl, started, cause, nAnalysed, lastWindow, consumed>>

\* The owner of the batch channel's Receiver drops it.
DropReceiver ==
    /\ source = "app"
    /\ rx_alive
    /\ rx_alive' = FALSE
    /\ UNCHANGED <<ctl_alive, budget, analysed>>
    /\ UNCHANGED <<source, ctlVars, thrVars, envVars, fileVars, histVars, renderVars,
                   fftVars, songVars>>

\* ---------------------------------------------------------- capture thread
\* What a thread step leaves alone besides the variables it names.
LoopFrame ==
    UNCHANGED <<source, current_handle, playing, device_change, current_pid,
                defaultDevice, devChanges, fileVars, lastCtl, started,
                renderVars, peerVars, fftVars, songVars>>

ThreadFrame == LoopFrame /\ UNCHANGED <<pid, frames, cause>>

\* AudioThread::new: binds the default device's identity, opens and
\* initialises the loopback client, plans the FFT for samplespersec / FFT_FREQUENCY.
ThreadNew(t) ==
    /\ pc[t] = "new"
    /\ device_id' = [device_id EXCEPT ![t] = defaultDevice]
    /\ planned' = [planned EXCEPT ![t] = ChunkSize(LiveRate)]
    /\ pc' = [pc EXCEPT ![t] = "lock0"]
    /\ ThreadFrame
    /\ UNCHANGED <<mutex, streaming, sample_queue, data, delivered, notif,
                   sample_destination, exitCause, nAnalysed, lastWindow, consumed>>

\* AudioThread::new when a platform call fails: the unwrap panics and the
\* thread unwinds.
ThreadOpenFail(t) ==
    /\ pc[t] = "new"
    /\ pc' = [pc EXCEPT ![t] = "exiting"]
    /\ exitCause' = [exitCause EXCEPT ![t] = "panic"]
    /\ ThreadFrame
    /\ UNCHANGED <<mutex, device_id, planned, streaming, sample_queue, data, delivered,
                   notif, sample_destination, nAnalysed, lastWindow, consumed>>

\* lock.lock(), and the re-acquisition of the mutex when wait() returns.
AfterAcquire(p) ==
    IF p = "lock0" \/ p = "wake0" THEN "recheck0"
    ELSE IF p = "lock1" THEN "locked1" ELSE "recheck1"

Acquire(t) ==
    /\ pc[t] \in {"lock0", "wake0", "lock1", "wake1"}
    /\ mutex = NoThread
    /\ mutex' = t
    /\ pc' = [pc EXCEPT ![t] = AfterAcquire(pc[t])]
    /\ ThreadFrame
    /\ UNCHANGED <<device_id, planned, streaming, sample_queue, data, delivered, notif,
                   sample_destination, exitCause, nAnalysed, lastWindow, consumed>>

\* A thread that waits for a notification whatever the gate holds.
Recheck0AlwaysWaits(t) ==
    /\ pc[t] = "recheck0"
    /\ mutex' = NoThread
    /\ pc' = [pc EXCEPT ![t] = "waiting0"]
    /\ ThreadFrame
    /\ UNCHANGED <<device_id, planned, streaming, sample_queue, data, delivered, notif,
                   sample_destination, exitCause, nAnalysed, lastWindow, consumed>>

\* capture_loop, before the loop: while !*playing { wait }, then drop(playing).
Recheck0(t) ==
    /\ pc[t] = "recheck0"
    /\ mutex' = NoThread
    /\ pc' = [pc EXCEPT ![t] = IF playing THEN "start0" ELSE "waiting0"]
    /\ ThreadFrame
    /\ UNCHANGED <<device_id, planned, streaming, sample_queue, data, delivered, notif,
                   sample_destination, exitCause, nAnalysed, lastWindow, consumed>>

\* Condvar::wait may return without a notification.
SpuriousWake(t) ==
    /\ pc[t] \in {"waiting0", "waiting1"}
    /\ pc' = [pc EXCEPT ![t] = IF pc[t] = "waiting0" THEN "wake0" ELSE "wake1"]
    /\ ThreadFrame
    /\ UNCHANGED <<mutex, device_id, planned, streaming, sample_queue, data, delivered,
                   notif, sample_destination, exitCause, nAnalysed, lastWindow,
                   consumed>>

\* The first start_stream().
StartStream0(t) ==
    /\ pc[t] = "start0"
    /\ streaming' = [streaming EXCEPT ![t] = TRUE]
    /\ pc' = [pc EXCEPT ![t] = "process"]
    /\ ThreadFrame
    /\ UNCHANGED <<mutex, device_id, planned, sample_queue, data, delivered, notif,
                   sample_destination, exitCause, nAnalysed, lastWindow, consumed>>

\* A chunk taken for filled one sample early.
ChunkFilledEarly(d, size) == Len(d) >= size - 1

\* if data.len() != chunk_size { break }, read the other way round
ChunkFilled(d, size) == Len(d) = size

\* FftHandler::perform_fft: one batch per call goes to the batch channel.
Batch(t, n) == [src |-> t, seq |-> n]

\* Sender::send on the batch channel: Err, and nothing queued, once the
\* Receiver has been dropped.
SendResult(peer) == IF peer THEN "Ok" ELSE "Err"
SendBatch(ch, b) == IF rx_alive THEN Append(ch, b) ELSE ch

\* The result of a send unwrapped.
Unwrapped(result) == IF result = "Ok" THEN "continue" ELSE "panic"

\* `let _ = sender.send(..)`: the result is dropped.
Discarded(result) == "continue"

\* One pass of `while !sample_queue.is_empty()`: move at most the missing
\* bytes to temp, convert, and analyse when the chunk is filled.
Process(t) ==
    LET q    == sample_queue[t]
        size == ChunkSize(LiveRate)
        cap  == Min(Len(q), (size - Len(data[t])) * F32Bytes)
        temp == SubSeq(q, 1, cap)
        rest == SubSeq(q, cap + 1, Len(q))
        d2   == data[t] \o Chunks(temp)
    IN
    /\ pc[t] = "process"
    /\ ThreadFrame
    /\ UNCHANGED <<mutex, device_id, planned, streaming, delivered, notif>>
    /\ IF q = <<>>
         THEN /\ pc' = [pc EXCEPT ![t] = "read"]
              /\ UNCHANGED <<sample_queue, data, sample_destination, exitCause,
                             nAnalysed, lastWindow, consumed>>
         ELSE IF cap % F32Bytes # 0
         THEN \* copy_from_slice on a short last chunk panics
              /\ pc' = [pc EXCEPT ![t] = "exiting"]
              /\ exitCause' = [exitCause EXCEPT ![t] = "panic"]
              /\ sample_queue' = [sample_queue EXCEPT ![t] = rest]
              /\ UNCHANGED <<data, sample_destination, nAnalysed, lastWindow, consumed>>
         ELSE /\ sample_queue' = [sample_queue EXCEPT ![t] = rest]
              /\ consumed' = [consumed EXCEPT ![t] = @ + Len(Chunks(temp))]
              /\ IF ChunkFilled(d2, size)
                   THEN /\ lastWindow' = [lastWindow EXCEPT ![t] = d2]
                        /\ nAnalysed' = [nAnalysed EXCEPT ![t] = @ + 1]
                        /\ sample_destination' =
                               SendBatch(sample_destination, Batch(t, nAnalysed[t] + 1))
                        /\ IF Discarded(SendResult(rx_alive)) = "panic"
                             THEN /\ data' = [data EXCEPT ![t] = d2]
                                  /\ pc' = [pc EXCEPT ![t] = "exiting"]
                                  /\ exitCause' = [exitCause EXCEPT ![t] = "panic"]
                             ELSE /\ data' = [data EXCEPT ![t] = DrainQuarter(d2)]
                                  /\ pc' = pc
                                  /\ UNCHANGED exitCause
                   ELSE /\ data' = [data EXCEPT ![t] = d2]
                        /\ pc' = [pc EXCEPT ![t] = "read"]
                        /\ UNCHANGED <<sample_destination, exitCause, nAnalysed,
                                       lastWindow>>

\* The pass of Process that fills the chunk, up to the end of the transform
\* inside perform_fft: the batch exists and has not been sent yet.
Analyse(t) ==
    LET q    == sample_queue[t]
        size == ChunkSize(LiveRate)
        cap  == Min(Len(q), (size - Len(data[t])) * F32Bytes)
        temp == SubSeq(q, 1, cap)
        rest == SubSeq(q, cap + 1, Len(q))
        d2   == data[t] \o Chunks(temp)
    IN
    /\ pc[t] = "process"
    /\ q # <<>>
    /\ cap % F32Bytes = 0
    /\ ChunkFilled(d2, size)
    /\ sample_queue' = [sample_queue EXCEPT ![t] = rest]
    /\ consumed' = [consumed EXCEPT ![t] = @ + Len(Chunks(temp))]
    /\ data' = [data EXCEPT ![t] = d2]
    /\ lastWindow' = [lastWindow EXCEPT ![t] = d2]
    /\ nAnalysed' = [nAnalysed EXCEPT ![t] = @ + 1]
    /\ analysed' = Append(analysed, Batch(t, nAnalysed[t] + 1))
    /\ pc' = [pc EXCEPT ![t] = "sending"]
    /\ UNCHANGED <<source, ctlVars, envVars, fileVars, renderVars, fftVars, songVars>>
    /\ UNCHANGED <<device_id, pid, planned, streaming, delivered, notif,
                   sample_destination>>
    /\ UNCHANGED <<lastCtl, started, cause, exitCause, ctl_alive, rx_alive, budget>>

\* The end of perform_fft, the send, and the drain that follows the call.
SendStep(t) ==
    /\ pc[t] = "sending"
    /\ sample_destination' = SendBatch(sample_destination, Batch(t, nAnalysed[t]))
    /\ data' = [data EXCEPT ![t] = DrainQuarter(data[t])]
    /\ pc' = [pc EXCEPT ![t] = "process"]
    /\ ThreadFrame
    /\ UNCHANGED <<mutex, device_id, planned, streaming, sample_queue, delivered, notif,
                   exitCause, nAnalysed, lastWindow, consumed>>

\* get_next_nbr_frames and read_from_device_to_deque: n whole frames arrive.
ReadFrames(t, n) ==
    /\ pc[t] = "read"
    /\ frames + n <= budget
    /\ frames' = frames + n
    /\ sample_queue' = [sample_queue EXCEPT
                           ![t] = @ \o DeviceBytes(delivered[t], n * BlockAlign)]
    /\ delivered' = [delivered EXCEPT ![t] = @ + n * BlockAlign]
    /\ pc' = [pc EXCEPT ![t] = "wait"]
    /\ LoopFrame
    /\ UNCHANGED <<pid, cause>>
    /\ UNCHANGED <<mutex, device_id, planned, streaming, data, notif,
                   sample_destination, exitCause, nAnalysed, lastWindow, consumed>>

\* event_handler.wait_for_event(..) returns Ok.
WaitOk(t) ==
    /\ pc[t] = "wait"
    /\ pc' = [pc EXCEPT ![t] = "devcheck"]
    /\ ThreadFrame
    /\ UNCHANGED <<mutex, device_id, planned, streaming, sample_queue, data, delivered,
                   notif, sample_destination, exitCause, nAnalysed, lastWindow,
                   consumed>>

\* The wait failure leaving the loop without stop_stream().
WaitFailNoStop(t) ==
    /\ pc[t] = "wait"
    /\ exitCause' = [exitCause EXCEPT ![t] = "wait"]
    /\ pc' = [pc EXCEPT ![t] = "exiting"]
    /\ ThreadFrame
    /\ UNCHANGED <<mutex, device_id, planned, streaming, sample_queue, data, delivered,
                   notif, sample_destination, nAnalysed, lastWindow, consumed>>

\* wait_for_event times out or fails: stop_stream(), break.
WaitFail(t) ==
    /\ pc[t] = "wait"
    /\ streaming' = [streaming EXCEPT ![t] = FALSE]
    /\ exitCause' = [exitCause EXCEPT ![t] = "wait"]
    /\ pc' = [pc EXCEPT ![t] = "exiting"]
    /\ ThreadFrame
    /\ UNCHANGED <<mutex, device_id, planned, sample_queue, data, delivered, notif,
                   sample_destination, nAnalysed, lastWindow, consumed>>

\* Sender::send on the thread's device_change sender; it fails, and is
\* ignored, when the controller no longer holds this channel's receiver.
Notify(t) ==
    IF device_change = t THEN [notif EXCEPT ![t] = @ + 1] ELSE notif

\* The device check notifying without returning.
DeviceCheckKeepsRunning(t) ==
    /\ pc[t] = "devcheck"
    /\ notif' = IF device_id[t] # defaultDevice THEN Notify(t) ELSE notif
    /\ pc' = [pc EXCEPT ![t] = "lock1"]
    /\ ThreadFrame
    /\ UNCHANGED <<mutex, device_id, planned, streaming, sample_queue, data, delivered,
                   sample_destination, exitCause, nAnalysed, lastWindow, consumed>>

\* The default device is read again and compared with the bound identity.
DeviceCheck(t) ==
    /\ pc[t] = "devcheck"
    /\ IF device_id[t] # defaultDevice
         THEN /\ notif' = Notify(t)
              /\ exitCause' = [exitCause EXCEPT ![t] =
                                  IF Discarded(SendResult(device_change = t)) = "panic"
                                    THEN "panic" ELSE "device"]
              /\ pc' = [pc EXCEPT ![t] = "exiting"]
         ELSE /\ pc' = [pc EXCEPT ![t] = "lock1"]
              /\ UNCHANGED <<notif, exitCause>>
    /\ ThreadFrame
    /\ UNCHANGED <<mutex, device_id, planned, streaming, sample_queue, data, delivered,
                   sample_destination, nAnalysed, lastWindow, consumed>>

\* The gate check going to the wait with the stream left running.
GateCheckKeepsStream(t) ==
    /\ pc[t] = "locked1"
    /\ IF playing
         THEN /\ mutex' = NoThread
              /\ pc' = [pc EXCEPT ![t] = "process"]
         ELSE /\ pc' = [pc EXCEPT ![t] = "recheck1"]
              /\ UNCHANGED mutex
    /\ ThreadFrame
    /\ UNCHANGED <<device_id, planned, streaming, sample_queue, data, delivered, notif,
                   sample_destination, exitCause, nAnalysed, lastWindow, consumed>>

\* The gate check ending the thread when the gate is closed.
GateCheckExits(t) ==
    /\ pc[t] = "locked1"
    /\ mutex' = NoThread
    /\ IF playing
         THEN /\ pc' = [pc EXCEPT ![t] = "process"]
              /\ UNCHANGED <<streaming, exitCause>>
         ELSE /\ streaming' = [streaming EXCEPT ![t] = FALSE]
              /\ exitCause' = [exitCause EXCEPT ![t] = "stopped"]
              /\ pc' = [pc EXCEPT ![t] = "exiting"]
    /\ ThreadFrame
    /\ UNCHANGED <<device_id, planned, sample_queue, data, delivered, notif,
                   sample_destination, nAnalysed, lastWindow, consumed>>

\* if !*playing { stop_stream(); ... } with the guard held; when playing the
\* guard is dropped at the end of the iteration.
GateCheck(t) ==
    /\ pc[t] = "locked1"
    /\ IF playing
         THEN /\ mutex' = NoThread
              /\ pc' = [pc EXCEPT ![t] = "process"]
              /\ UNCHANGED streaming
         ELSE /\ streaming' = [streaming EXCEPT ![t] = FALSE]
              /\ pc' = [pc EXCEPT ![t] = "recheck1"]
              /\ UNCHANGED mutex
    /\ ThreadFrame
    /\ UNCHANGED <<device_id, planned, sample_queue, data, delivered, notif,
                   sample_destination, exitCause, nAnalysed, lastWindow, consumed>>

\* while !*playing { playing = cvar.wait(playing) }
Recheck1(t) ==
    /\ pc[t] = "recheck1"
    /\ IF playing
         THEN /\ pc' = [pc EXCEPT ![t] = "restart1"]
              /\ UNCHANGED mutex
         ELSE /\ pc' = [pc EXCEPT ![t] = "waiting1"]
              /\ mutex' = NoThread
    /\ ThreadFrame
    /\ UNCHANGED <<device_id, planned, streaming, sample_queue, data, delivered, notif,
                   sample_destination, exitCause, nAnalysed, lastWindow, consumed>>

\* start_stream() after the wait, then the guard goes out of scope.
Restart1(t) ==
    /\ pc[t] = "restart1"
    /\ streaming' = [streaming EXCEPT ![t] = TRUE]
    /\ mutex' = NoThread
    /\ pc' = [pc EXCEPT ![t] = "process"]
    /\ ThreadFrame
    /\ UNCHANGED <<device_id, planned, sample_queue, data, delivered, notif,
                   sample_destination, exitCause, nAnalysed, lastWindow, consumed>>

\* capture_loop has returned (or the thread unwinds): the AudioThread and the
\* loop's locals are dropped, the device_change Sender with them.
ThreadExit(t) ==
    /\ pc[t] = "exiting"
    /\ pc' = [pc EXCEPT ![t] = "done"]
    /\ sample_queue' = [sample_queue EXCEPT ![t] = <<>>]
    /\ data' = [data EXCEPT ![t] = <<>>]
    /\ delivered' = [delivered EXCEPT ![t] = 0]
    /\ device_id' = [device_id EXCEPT ![t] = 0]
    /\ planned' = [planned EXCEPT ![t] = 0]
    /\ pid' = [pid EXCEPT ![t] = NoPid]
    /\ streaming' = [streaming EXCEPT ![t] = FALSE]
    /\ consumed' = [consumed EXCEPT ![t] = 0]
    /\ nAnalysed' = [nAnalysed EXCEPT ![t] = 0]
    /\ lastWindow' = [lastWindow EXCEPT ![t] = <<>>]
    /\ cause' = [cause EXCEPT ![t] = NoCause]
    /\ exitCause' = IF device_change = t THEN exitCause
                                         ELSE [exitCause EXCEPT ![t] = "none"]
    /\ LoopFrame
    /\ UNCHANGED <<mutex, frames, notif, sample_destination>>

ThreadStep(t) ==
    \/ ThreadNew(t)
    \/ ThreadOpenFail(t)
    \/ Acquire(t)
    \/ Recheck0(t)
    \/ StartStream0(t)
    \/ Process(t)
    \/ \E n \in 0..MaxBurst : ReadFrames(t, n)
    \/ WaitOk(t)
    \/ WaitFail(t)
    \/ DeviceCheck(t)
    \/ GateCheck(t)
    \/ Recheck1(t)
    \/ Restart1(t)
    \/ ThreadExit(t)

\* -------------------------------------------------------------- file filter
\* FftFilter::perform_fft: the batch made from the n-th window.
FileBatch(n) == [seq |-> n]

\* A store that adds the batch to what the slot holds.
SlotExtend(slot, b) == Append(slot, b)

\* `*data = transformed_data.clone()` under the slot's lock: the slot holds
\* the bins of this batch and nothing else.
SlotStore(slot, b) == <<b>>

\* FftFilter::next for one sample of the decoder; the sample is its position
\* in the interleaved stream.
FilterNext ==
    LET sample == f_pos
        pushed == IF counter % f_channels = 0
                    THEN Append(internal_vector, sample) ELSE internal_vector
        full   == Len(pushed) = f_rate \div FFT_FREQUENCY
        kept   == DrainQuarter(pushed)
    IN
    /\ source = "file"
    /\ f_pos < MaxRaw
    /\ full => slot_holder = "none"
    /\ f_pos' = f_pos + 1
    /\ f_taken' = IF counter % f_channels = 0 THEN Append(f_taken, sample) ELSE f_taken
    /\ IF full
         THEN /\ output_vector' = SlotStore(output_vector, FileBatch(f_nAnalysed + 1))
              /\ f_nAnalysed' = f_nAnalysed + 1
              /\ f_lastWindow' = pushed
              /\ internal_vector' = kept
              /\ counter' = Len(kept) % U16
         ELSE /\ internal_vector' = pushed
              /\ counter' = (counter + 1) % U16
              /\ UNCHANGED <<output_vector, f_nAnalysed, f_lastWindow>>
    /\ UNCHANGED <<source, ctlVars, thrVars, envVars, histVars, f_channels, f_rate,
                   f_planned>>
    /\ UNCHANGED <<renderVars, peerVars, fftVars, songVars>>

\* -------------------------------------------------------------- perform_fft
\* Frequencies are exact fractions num / den with den > 0; equal denominators
\* or numerators are compared without the cross products.
Frac(n, d) == [num |-> n, den |-> d]
FracLess(a, b) ==
    IF a.den = b.den THEN a.num < b.num ELSE a.num * b.den < b.num * a.den
FracEq(a, b) ==
    IF a.num = b.num THEN a.num = 0 \/ a.den = b.den
    ELSE a.num * b.den = b.num * a.den

\* Fft::process on a buffer: output k of the transform of that buffer (the
\* buffer is known by its length and its first sample).
FftProcess(buf) ==
    [k \in 1..Len(buf) |-> [bin |-> k - 1, len |-> Len(buf), first |-> buf[1]]]

\* A drain that leaves the second half of the outputs.
HalfSpectrumUpper(v) == SubSeq(v, (Len(v) \div 2) + 1, Len(v))

\* processed_data.drain((len / 2)..len): what stays
HalfSpectrum(v) == SubSeq(v, 1, Len(v) \div 2)

\* step = sample_rate / processed_data.len(), taken after the drain, and
\* fr = index * step
BinFrequency(index, rate, len) == Frac(index * rate, len)

\* The (amplitude, frequency) pairs before the retain.
Tagged(half, rate) ==
    [i \in 1..Len(half) |->
        [amp |-> half[i], fr |-> BinFrequency(i - 1, rate, Len(half))]]

\* A retain that keeps the two ends of the range.
AudibleInclusive(x) ==
    ~FracLess(x.fr, Frac(LowCut, 1)) /\ ~FracLess(Frac(HighCut, 1), x.fr)

\* retain(|&x| x.1 > 20.0 && x.1 < 20000.0)
Audible(x) == FracLess(Frac(LowCut, 1), x.fr) /\ FracLess(x.fr, Frac(HighCut, 1))

\* The n-th window (from 0) of a stream, for window length L.
StreamWindow(n, L) == [i \in 1..L |-> n * (L \div 4) + i - 1]

\* The accumulator has a full window: data.len() == chunk_size.
FftWindow(n) ==
    /\ fft_path # "none"
    /\ fft_data = <<>>
    /\ fft_data' = StreamWindow(n, ChunkSize(fft_rate))
    /\ UNCHANGED <<fft_path, fft_rate, fft_half, fft_batch, fft_tone>>
    /\ UNCHANGED <<source, ctlVars, thrVars, envVars, fileVars, histVars, renderVars,
                   peerVars, songVars>>

\* The accumulator has a full window of a pure sine of f Hz, f below half the
\* rate and with a whole number of periods in the window.
FftSine(f) ==
    /\ fft_path # "none"
    /\ fft_data = <<>>
    /\ 2 * f < fft_rate
    /\ (f * ChunkSize(fft_rate)) % fft_rate = 0
    /\ fft_data' = StreamWindow(0, ChunkSize(fft_rate))
    /\ fft_tone' = f
    /\ UNCHANGED <<fft_path, fft_rate, fft_half, fft_batch>>
    /\ UNCHANGED <<source, ctlVars, thrVars, envVars, fileVars, histVars, renderVars,
                   peerVars, songVars>>

\* Complex::norm of an output of the transform when the window is a sine of
\* tone Hz with amplitude 1 sampled at rate: len / 2 at the output whose index
\* is the number of periods in the window, and at its mirror image, 0 at the
\* others.
SineNorm(amp, tone, rate) ==
    IF tone > 0 /\ (amp.bin * rate = tone * amp.len
                    \/ (amp.len - amp.bin) * rate = tone * amp.len)
      THEN amp.len \div 2 ELSE 0

\* FftHandler::perform_fft(&data) and FftFilter::perform_fft(): the transform
\* runs on a copy of the window, the upper half of the outputs is drained,
\* each bin gets its frequency, the inaudible bins are removed and the batch
\* is handed off.
PerformFft ==
    LET processed_data == HalfSpectrum(FftProcess(fft_data))
        tagged         == Tagged(processed_data, fft_rate)
    IN
    /\ fft_path # "none"
    /\ fft_data # <<>>
    /\ fft_half = <<>>
    /\ fft_half' = tagged
    /\ fft_batch' = SelectSeq(tagged, Audible)
    /\ UNCHANGED <<fft_path, fft_rate, fft_data, fft_tone>>
    /\ UNCHANGED <<source, ctlVars, thrVars, envVars, fileVars, histVars, renderVars,
                   peerVars, songVars>>

\* ---------------------------------------------------------------- renderer
\* What data_preprocess makes of the slot's content: the curve of a batch.
FinalData(input) == [of |-> input]

\* FftRenderer::render reaching data_preprocess: the slot is locked; an empty
\* slot makes it return at once (the guard is dropped, the previous curve
\* stays), otherwise the post-processing starts with the guard held.
RenderLock ==
    /\ source = "file"
    /\ r_pc = "idle"
    /\ slot_holder = "none"
    /\ IF output_vector = <<>>
         THEN UNCHANGED <<r_pc, slot_holder>>
         ELSE r_pc' = "process" /\ slot_holder' = "renderer"
    /\ UNCHANGED <<current_render_data, current_size, r_fresh, r_buckets, r_recomputed,
                   r_resized>>
    /\ UNCHANGED <<source, ctlVars, thrVars, envVars, fileVars, histVars, peerVars,
                   fftVars, songVars>>

\* The rest of data_preprocess: mel remap, bucket averages, normalisation and
\* placement read the slot through the guard; the guard is dropped when the
\* function returns.
RenderFinish ==
    /\ source = "file"
    /\ r_pc = "process"
    /\ current_render_data' = FinalData(output_vector)
    /\ slot_holder' = "none"
    /\ r_pc' = "idle"
    /\ UNCHANGED <<current_size, r_fresh, r_buckets, r_recomputed, r_resized>>
    /\ UNCHANGED <<source, ctlVars, thrVars, envVars, fileVars, histVars, peerVars,
                   fftVars, songVars>>

\* ------------------------------------------------- renderer, with its numbers
\* A bin as the renderer reads it: amp is the norm of the complex amplitude,
\* fr the frequency in Hz.  The bins of a batch are at 30, 40, ... Hz.
Bin(mag, i) == [amp |-> mag, fr |-> 30 + 10 * (i - 1)]
BatchesOf(n) == {[i \in 1..n |-> Bin(m[i], i)] : m \in [1..n -> 0..MaxMag]}
\* The long batches: LongBins bins, all of magnitude m, or all but the one
\* at either end, which is larger.
LongBatches ==
    {[i \in 1..LongBins |-> Bin(IF i = p THEN MaxMag + 1 ELSE m, i)] :
        p \in {0, 1, LongBins}, m \in 0..MaxMag}
Batches == UNION {BatchesOf(n) : n \in 0..MaxBins} \cup LongBatches

\* 1127.0 * (1.0 + fr / 700.0).ln(), in hundredths of a mel, rounded, for
\* fr = 30, 40, ... Hz.
MelTable ==
    <<
       4729, 6263, 7775, 9268, 10741, 12196, 13631, 15049, 16449, 17832,
       19198, 20548, 21881, 23200, 24502, 25790, 27064, 28323, 29568, 30800,
       32019, 33224, 34417, 35597, 36765, 37920, 39065, 40197, 41319, 42429,
       43529, 44617, 45696, 46764, 47822, 48871, 49909, 50939, 51959, 52969,
       53971, 54964, 55948, 56924, 57892, 58851, 59802, 60745, 61680, 62608,
       63528, 64440, 65346, 66244, 67134, 68018, 68895, 69766, 70629, 71486,
       72337, 73181, 74019, 74851, 75676, 76496, 77310, 78118, 78920, 79716,
       80507, 81293, 82072, 82847, 83616, 84380, 85139, 85893, 86642, 87386,
       88125, 88859, 89589, 90313, 91033, 91749, 92460, 93167, 93869, 94567,
       95260, 95950, 96635, 97316, 97992, 98665, 99334, 99999, 100660, 101317,
       101971, 102620, 103266, 103908, 104547, 105182, 105813, 106441, 107065, 107686,
       108304, 108918, 109529, 110136, 110741, 111342, 111939, 112534, 113126, 113714,
       114300, 114882, 115462, 116038, 116612, 117182, 117750, 118315, 118877, 119436,
       119993, 120547, 121098, 121646, 122192, 122735, 123276, 123814, 124349, 124882,
       125412, 125940, 126465, 126988, 127509, 128027, 128543, 129056, 129568, 130076,
       130583, 131087, 131589, 132089, 132586, 133082, 133575, 134066, 134555, 135042,
       135527, 136009, 136490, 136968, 137445, 137919, 138392, 138863, 139331, 139798,
       140263, 140725, 141186, 141645, 142103, 142558, 143012, 143463, 143913, 144361,
       144808, 145252, 145695, 146136, 146575, 147013, 147449, 147883, 148316, 148747,
       149176, 149604, 150030, 150455, 150878, 151299, 151719, 152137, 152553, 152968,
       153382, 153794, 154205, 154614, 155021, 155427, 155832, 156235, 156637, 157038
    >>
Mel(fr) == MelTable[(fr - 20) \div 10]

\* mel_data
MelData(input) == [i \in 1..Len(input) |-> [amp |-> input[i].amp, mel |-> Mel(input[i].fr)]]

RECURSIVE Gcd(_, _)
Gcd(a, b) == IF b = 0 THEN a ELSE Gcd(b, a % b)

\* A fraction in lowest terms; 0/0 stands for NaN and n/0 for infinity.
Reduce(f) ==
    IF f.den = 0 THEN Frac(IF f.num = 0 THEN 0 ELSE 1, 0)
    ELSE LET g == Gcd(f.num, f.den) IN Frac(f.num \div g, f.den \div g)
FracMul(a, b) == Reduce(Frac(a.num * b.num, a.den * b.den))
FracDiv(a, b) == Reduce(Frac(a.num * b.den, a.den * b.num))

\* The inner loop: j advances while mel_data[j].1 < mel_data[i].1 + mel_diff,
\* mel_diff being d / 150.
RECURSIVE BucketEnd(_, _, _, _)
BucketEnd(m, i, j, d) ==
    IF j <= Len(m) /\ Buckets * m[j].mel < Buckets * m[i].mel + d
      THEN BucketEnd(m, i, j + 1, d) ELSE j

RECURSIVE SumNorm(_, _, _)
SumNorm(m, i, j) == IF i >= j THEN 0 ELSE m[i].amp + SumNorm(m, i + 1, j)

\* One pass of the outer loop, from the state st = [i, buckets, hung]: it
\* pushes sum / (j - i) and goes on from j.  A pass that takes no bin pushes
\* 0 / 0 and leaves i where it was, so that every later pass does the same:
\* the loop never ends.
OuterPass(m, d, st) ==
    IF st.hung \/ st.i > Len(m) THEN st
    ELSE LET j == BucketEnd(m, st.i, st.i, d) IN
         IF j = st.i
           THEN [i |-> st.i, buckets |-> Append(st.buckets, Frac(0, 0)), hung |-> TRUE]
           ELSE [i |-> j,
                 buckets |-> Append(st.buckets, Reduce(Frac(SumNorm(m, st.i, j), j - st.i))),
                 hung |-> FALSE]

\* k passes of the outer loop.
RECURSIVE Passes(_, _, _, _)
Passes(k, m, d, st) ==
    IF k = 0 THEN st
    ELSE IF k = 1 THEN OuterPass(m, d, st)
    ELSE CHOOSE out \in {Passes(k - k \div 2, m, d, half) :
                          half \in {Passes(k \div 2, m, d, st)}} : TRUE

\* averaged_data, for mel_diff = (last mel - first mel) / 150: the loop ends
\* within Len(m) passes or not at all.
AveragedData(m) ==
    Passes(Len(m), m, m[Len(m)].mel - m[1].mel,
           [i |-> 1, buckets |-> <<>>, hung |-> FALSE])

\* max_by(total_cmp)
Largest(a) ==
    a[CHOOSE i \in 1..Len(a) : \A k \in 1..Len(a) : ~FracLess(a[i], a[k])]

\* final_data: the point of bucket i (from 1) is
\* [step * (i - 1), (averaged / largest) * height] with step = width / len.
FinalPoints(a, size) ==
    CHOOSE final_data \in
        {[i \in 1..Len(a) |->
            <<Reduce(Frac(size[1] * (i - 1), Len(a))),
              FracMul(FracDiv(a[i], largest), Frac(size[2], 1))>>] :
         largest \in {Largest(a)}} : TRUE

\* FftRenderer::resize
Resize(curve, old, new) ==
    [i \in 1..Len(curve) |->
        <<FracMul(curve[i][1], Frac(new[1], old[1])),
          FracMul(curve[i][2], Frac(new[2], old[2]))>>]

\* The bins the slot holds.
SlotBins(slot) == IF slot = <<>> THEN <<>> ELSE slot[1].bins

\* A slot never taken for empty.
NeverEmpty(bins) == FALSE

\* lock.is_empty()
IsEmpty(bins) == bins = <<>>

\* FftFilter::perform_fft storing a batch in the slot.
Publish(b) ==
    /\ r_pc = "idle"
    /\ output_vector' = SlotStore(output_vector, [bins |-> b])
    /\ r_fresh' = TRUE
    /\ UNCHANGED <<slot_holder, r_pc, current_render_data, current_size, r_buckets,
                   r_recomputed, r_resized>>
    /\ UNCHANGED <<f_channels, f_rate, f_planned, f_pos, internal_vector, counter,
                   f_nAnalysed, f_lastWindow, f_taken>>
    /\ UNCHANGED <<source, ctlVars, thrVars, envVars, histVars, peerVars, fftVars, songVars>>

\* FftRenderer::render(draw_list, size): resize when the size differs from
\* the last one, then data_preprocess, which returns at once on an empty
\* slot, and never returns when a pass of the averaging takes no bin.
Render(size) ==
    LET resized == IF current_size # size
                     THEN Resize(current_render_data, current_size, size)
                     ELSE current_render_data
        bins    == SlotBins(output_vector)
    IN
    /\ r_pc = "idle"
    /\ current_size' = size
    /\ r_resized' = (current_size # size)
    /\ r_fresh' = FALSE
    /\ IF IsEmpty(bins)
         THEN /\ current_render_data' = resized
              /\ r_buckets' = <<>>
              /\ r_recomputed' = FALSE
              /\ UNCHANGED r_pc
         ELSE IF bins = <<>>
         THEN \* mel_data.last().unwrap() on an empty vector panics
              /\ current_render_data' = resized
              /\ r_buckets' = <<>>
              /\ r_recomputed' = TRUE
              /\ r_pc' = "panicked"
         ELSE \E mel_data \in {MelData(bins)} : \E a \in {AveragedData(mel_data)} :
              /\ r_buckets' = a.buckets
              /\ r_recomputed' = TRUE
              /\ IF a.hung
                   THEN r_pc' = "hung" /\ current_render_data' = resized
                   ELSE /\ current_render_data' = FinalPoints(a.buckets, size)
                        /\ UNCHANGED r_pc
    /\ UNCHANGED <<slot_holder, fileVars>>
    /\ UNCHANGED <<source, ctlVars, thrVars, envVars, histVars, peerVars, fftVars, songVars>>

\* ------------------------------------------------------ FileAudioManager
\* The song lists the file dialogue can return: up to MaxSongs paths.
SongLists == UNION {[1..n -> Paths] : n \in 1..MaxSongs}

\* File::open(path).unwrap() and Decoder::new(reader).unwrap(): both succeed
\* on a readable audio file, and one of them panics on any other path.
Readable(path) == path # BadPath

\* Sink::clear: removes every source and pauses the sink.
\* Sink::append: queues one source.  Sink::play: resumes.
SinkClear == [queue |-> <<>>, paused |-> TRUE]

\* A change that acts on every call, whatever index is selected.
ChangeAlways(index, songs, idx) == TRUE

\* `if index == self.selected_song_idx { return }`, read the other way round
Changes(index, songs, idx) == index # idx

\* FileAudioManager::change_current_song(index) on the list `songs`, the
\* selected index idx and the sink st = [queue, paused]: the state it leaves,
\* as [idx, queue, paused, pc].  Indexing the list beyond its end panics, and
\* so does a file that cannot be opened or decoded, in both cases after the
\* sink was cleared and the index recorded.
ChangeCurrentSong(index, songs, idx, st) ==
    IF ~Changes(index, songs, idx)
      THEN [idx |-> idx, queue |-> st.queue, paused |-> st.paused, pc |-> "run"]
    ELSE IF index >= Len(songs) \/ ~Readable(songs[index + 1])
      THEN [idx |-> index, queue |-> SinkClear.queue, paused |-> SinkClear.paused,
            pc |-> "panicked"]
    ELSE [idx |-> index, queue |-> Append(SinkClear.queue, songs[index + 1]),
          paused |-> FALSE, pc |-> "run"]

SongFrame ==
    /\ UNCHANGED <<source, ctlVars, thrVars, envVars, fileVars, histVars, renderVars,
                   peerVars, fftVars>>

\* application_loop, the song list box: with a non-empty list,
\* change_current_song(selected_item) is called on every frame, the item
\* being the selected one or the one the user has just clicked.
SongListBox(item) ==
    LET after == ChangeCurrentSong(item, opened_songs, selected_song_idx,
                                   [queue |-> sink, paused |-> sink_paused])
    IN
    /\ song_pc = "run"
    /\ opened_songs # <<>>
    /\ item = selected_song_idx \/ item < Len(opened_songs)
    /\ selected_song_idx' = after.idx
    /\ sink' = after.queue
    /\ sink_paused' = after.paused
    /\ song_pc' = after.pc
    /\ UNCHANGED opened_songs
    /\ SongFrame

\* application_loop, the "Select Songs" button: update_open_songs(paths),
\* then change_current_song(0).
SelectSongs(paths) ==
    LET after == ChangeCurrentSong(0, paths, selected_song_idx,
                                   [queue |-> sink, paused |-> sink_paused])
    IN
    /\ song_pc = "run"
    /\ opened_songs' = paths
    /\ selected_song_idx' = after.idx
    /\ sink' = after.queue
    /\ sink_paused' = after.paused
    /\ song_pc' = after.pc
    /\ SongFrame

\* application_loop, the space key: pause a playing sink, play a paused one.
SpaceKey ==
    /\ song_pc = "run"
    /\ sink_paused' = ~sink_paused
    /\ UNCHANGED <<opened_songs, selected_song_idx, sink, song_pc>>
    /\ SongFrame

\* The sink has played its source to the end: the queue empties.
SongEnds ==
    /\ song_pc = "run"
    /\ sink # <<>>
    /\ ~sink_paused
    /\ sink' = Tail(sink)
    /\ UNCHANGED <<opened_songs, selected_song_idx, sink_paused, song_pc>>
    /\ SongFrame

\* ------------------------------------------------------------ specification
Next ==
    \/ Start
    \/ Stop
    \/ \E p \in Pids : Update(p)
    \/ \E d \in Devices : DeviceChange(d)
    \/ \E t \in Threads : ThreadStep(t)
    \/ \E t \in Threads : SpuriousWake(t)
    \/ FilterNext
    \/ RenderLock
    \/ RenderFinish

Spec == Init /\ [][Next]_vars

\* A spawned OS thread keeps being scheduled: each of its steps that stays
\* possible is eventually taken.  Nothing obliges the controller's caller or
\* the environment to act.
FairSpec == Spec /\ \A t \in Threads : WF_vars(ThreadStep(t))

\* The program with perform_fft in two steps, the transform and the send, so
\* that the steps of other threads may fall between them, and with audio for
\* two windows.
ChanThreadStep(t) ==
    \/ ThreadStep(t) /\ nAnalysed'[t] # nAnalysed[t] + 1
    \/ Analyse(t)
    \/ SendStep(t)

ChanInit ==
    /\ Constructed({"app", "file"})
    /\ budget = 2 * ChunkSize(LiveRate)
    /\ FftIdle

ChanNext ==
    \/ Start
    \/ Stop
    \/ \E p \in Pids : Update(p)
    \/ \E d \in Devices : DeviceChange(d)
    \/ \E t \in Threads : ChanThreadStep(t)
    \/ \E t \in Threads : SpuriousWake(t)
    \/ FilterNext
    \/ RenderLock
    \/ RenderFinish

ChanSpec == ChanInit /\ [][ChanNext]_vars

\* The program up to its end: the controller and the receiver of the batches
\* may be dropped while a capture thread runs.
TeardownNext ==
    \/ Next
    \/ DropController
    \/ DropReceiver

TeardownSpec == Init /\ [][TeardownNext]_vars

\* perform_fft as a function of the handler's sample rate and of the window:
\* neither source runs; a handler is built for a rate and is given a window.
FftInit ==
    /\ Constructed({"none"})
    /\ budget = MaxFrames
    /\ fft_path \in {"live", "file"}
    /\ fft_rate \in FftRates
    /\ fft_data = <<>>
    /\ fft_half = <<>>
    /\ fft_batch = <<>>
    /\ fft_tone = 0

FftNext ==
    \/ \E n \in 0..(MaxWindows - 1) : FftWindow(n)
    \/ \E f \in Tones : FftSine(f)
    \/ PerformFft

FftSpec == FftInit /\ [][FftNext]_vars

\* The file manager's song list and sink on their own.
SongInit ==
    /\ Constructed({"none"})
    /\ budget = MaxFrames
    /\ FftIdle

SongNext ==
    \/ \E item \in 0..(MaxSongs - 1) : SongListBox(item)
    \/ \E paths \in SongLists : SelectSongs(paths)
    \/ SpaceKey
    \/ SongEnds

SongSpec == SongInit /\ [][SongNext]_vars

\* The renderer as a function of the batches stored and of the sizes it is
\* called with: neither source runs; batches are stored and render is called.
RenderInit ==
    /\ Constructed({"none"})
    /\ budget = MaxFrames
    /\ FftIdle

RenderNext ==
    \/ \E b \in Batches : Publish(b)
    \/ \E size \in Sizes : Render(size)

RenderSpec == RenderInit /\ [][RenderNext]_vars

\* ------------------------------------------------------------------ claims
Alive(t) == pc[t] \notin {"unborn", "exiting", "done"}
Ended(t) == pc[t] \in {"exiting", "done"}
Parked(t) == pc[t] \in {"waiting0", "waiting1"}
IsPrefix(a, b) == Len(a) <= Len(b) /\ SubSeq(b, 1, Len(a)) = a

\* The n-th window (from 1) of a stream whose k-th sample (from 0) is S(k),
\* for window length L: it starts (n-1) * (L div 4) samples into the stream.
LiveWindow(n, L) == [k \in 1..L |-> StreamSample((n - 1) * (L \div 4) + k - 1)]
FileWindow(n, L) ==
    SubSeq(f_taken, (n - 1) * (L \div 4) + 1, (n - 1) * (L \div 4) + L)

\* Samples a source has taken in when it has analysed n windows and holds
\* `held` samples: L + (n-1) * (L div 4) at the n-th analysis, which leaves
\* L - L div 4 of them in the accumulator.
TakenIn(n, L, held) ==
    IF n = 0 THEN held ELSE L + (n - 1) * (L \div 4) + held - (L - L \div 4)

\* C1: window overlap, capture thread and file filter.  The samples are those
\* the accumulator takes in (on the file path, the samples the channel test
\* lets through), numbered from 0.  The first analysed window is samples
\* 0..L-1, the n-th is the previous one without its first L div 4 samples
\* followed by the next L div 4 samples, i.e. samples (n-1)*(L div 4) ..
\* (n-1)*(L div 4) + L - 1; when the n-th window is analysed exactly
\* L + (n-1)*(L div 4) samples have been taken in.
C1_WindowOverlap ==
    /\ \A t \in Threads :
         /\ consumed[t] = TakenIn(nAnalysed[t], ChunkSize(LiveRate), Len(data[t]))
         /\ nAnalysed[t] >= 1 =>
              lastWindow[t] = LiveWindow(nAnalysed[t], ChunkSize(LiveRate))
    /\ Len(f_taken) = TakenIn(f_nAnalysed, f_rate \div FFT_FREQUENCY, Len(internal_vector))
    /\ f_nAnalysed >= 1 =>
         f_lastWindow = FileWindow(f_nAnalysed, f_rate \div FFT_FREQUENCY)

\* C1 witness: a capture thread has analysed a second, overlapping window.
C1_Witness ==
    \E t \in Threads :
        /\ nAnalysed[t] >= 2
        /\ lastWindow[t][1] = StreamSample(ChunkSize(LiveRate) \div 4)

\* C2: only full windows are analysed.  Every perform_fft call receives
\* exactly sample_rate / FFT_FREQUENCY samples, the length the transform was
\* planned for; a step that analyses nothing hands off no batch and keeps the
\* accumulated samples.
C2_FullWindowsOnly ==
    /\ [](/\ \A t \in Threads :
               nAnalysed[t] >= 1 =>
                   /\ Len(lastWindow[t]) = LiveRate \div FFT_FREQUENCY
                   /\ Len(lastWindow[t]) = planned[t]
          /\ f_nAnalysed >= 1 =>
                   /\ Len(f_lastWindow) = f_rate \div FFT_FREQUENCY
                   /\ Len(f_lastWindow) = f_planned)
    /\ [][/\ \A t \in Threads :
               (Alive(t) /\ Alive(t)' /\ nAnalysed'[t] = nAnalysed[t]) =>
                   /\ IsPrefix(data[t], data'[t])
                   /\ Len(data'[t]) < LiveRate \div FFT_FREQUENCY
                   /\ \/ sample_destination' = sample_destination
                      \/ sample_destination'[Len(sample_destination')].src # t
          /\ f_nAnalysed' = f_nAnalysed =>
                   /\ IsPrefix(internal_vector, internal_vector')
                   /\ output_vector' = output_vector]_vars

\* C2 witness: a thread that has analysed a window accumulates again and
\* holds fewer samples than a window.
C2_Witness ==
    \E t \in Threads :
        /\ nAnalysed[t] >= 1
        /\ pc[t] = "wait"
        /\ Len(data[t]) < ChunkSize(LiveRate)
        /\ Len(sample_destination) = nAnalysed[t]

C5_GateWrittenByControllerOnly ==
    is_playing = (lastCtl = "start")

\* C5 witness: a thread parked by stop() has been woken by start() and holds
\* the mutex, about to restart its stream; the gate is what start() wrote.
C5_Witness ==
    /\ is_playing
    /\ \E t \in Threads : pc[t] = "restart1" /\ mutex = t

\* The device check of C6: a thread at the check that finds another default
\* device sends one notification and leaves; an ended thread sends no
\* notification and no batch.
C6_CheckNotifiesAndLeaves ==
    [][\A t \in Threads :
         /\ (pc[t] = "devcheck" /\ pc'[t] # "devcheck") =>
               IF device_id[t] # defaultDevice
                 THEN /\ pc'[t] = "exiting"
                      /\ exitCause'[t] = "device"
                      /\ notif'[t] = notif[t] + (IF device_change = t THEN 1 ELSE 0)
                 ELSE /\ pc'[t] = "lock1"
                      /\ notif'[t] = notif[t]
         /\ Ended(t) =>
               /\ notif'[t] <= notif[t]
               /\ \/ sample_destination' = sample_destination
                  \/ sample_destination'[Len(sample_destination')].src # t]_vars

Running(t) ==
    pc[t] \in {"process", "read", "wait", "devcheck", "lock1", "locked1"} /\ streaming[t]

\* C6 as stated: the check above, and a thread that is running while the
\* default device differs from the one it is bound to eventually notifies.
C6_ChangeAlwaysNotified ==
    /\ C6_CheckNotifiesAndLeaves
    /\ \A t \in Threads :
         (Running(t) /\ device_id[t] # defaultDevice) ~> (exitCause[t] = "device")

\* C6 amended: the check above, and a thread that is running while the
\* default device differs from the one it is bound to eventually notifies and
\* leaves, unless the buffer-ready wait fails first (it then leaves without
\* notifying), the default device is the bound one again when it is next
\* compared, or stop() parks the thread before the next comparison.
C6_ChangeNotifiedUnlessWaitFails ==
    /\ C6_CheckNotifiesAndLeaves
    /\ \A t \in Threads :
         (Running(t) /\ device_id[t] # defaultDevice) ~>
             \/ exitCause[t] = "device"
             \/ exitCause[t] = "wait"
             \/ device_id[t] = defaultDevice
             \/ Parked(t)

\* C6 witness: a thread has found the default device changed, has sent its
\* notification and is leaving.
C6_Witness ==
    \E t \in Threads :
        pc[t] = "exiting" /\ exitCause[t] = "device" /\ notif[t] = 1

\* C7: one device change, one replacement.  A poll that finds the
\* notification spawns exactly one thread, for the polled process, and takes
\* the notification out of the channel; any spawn happens only when the
\* thread spawned last, which is the one the controller watches, has ended or
\* is leaving, so later polls spawn nothing while the replacement runs; a
\* spawn leaves the gate as it was.
C7_OneReplacementPerChange ==
    [][/\ \A p \in Pids :
            (TryRecv = "Ok" /\ Update(p)) =>
                /\ current_handle' = current_handle + 1
                /\ pc'[current_handle'] = "new"
                /\ pid'[current_handle'] = p
                /\ notif'[device_change] = notif[device_change] - 1
       /\ current_handle' # current_handle =>
                /\ current_handle' = current_handle + 1
                /\ device_change = current_handle
                /\ device_change' = current_handle'
                /\ current_handle # NoThread => Ended(current_handle)
                /\ playing' = playing
                /\ lastCtl' = lastCtl]_vars

\* C7 witness: the replacement spawned for a notification runs with the gate
\* still open, and the notification is gone.
C7_Witness ==
    \E t \in Threads :
        /\ cause[t].kind = "notified"
        /\ pc[t] = "read"
        /\ is_playing
        /\ notif[cause[t].prev] = 0
        /\ TryRecv = "Empty"

\* C8: retargeting.  Every update(target) ends with target as the recorded
\* process and with every live capture thread bound to it; and when a live
\* thread is bound to another process, update(target) is not a call without
\* effect (it has the thread replaced).
C8_UpdateRetargets ==
    /\ [](\A p \in Pids :
            (\E t \in Threads : Alive(t) /\ pid[t] # p) => ENABLED <<Update(p)>>_vars)
    /\ [][\A p \in Pids :
            Update(p) => /\ current_pid' = p
                         /\ \A t \in Threads : Alive(t)' => pid'[t] = p]_vars

\* C9: at most one capture thread is alive (spawned and not yet leaving) in
\* every reachable state.
C9_AtMostOneAlive ==
    Cardinality({t \in Threads : Alive(t)}) <= 1

\* C9 witness: the hand-off; the old thread has notified and is leaving while
\* its replacement is already alive.
C9_Witness ==
    \E t, u \in Threads :
        /\ pc[t] = "exiting"
        /\ exitCause[t] = "device"
        /\ Alive(u)
        /\ cause[u].prev = t

\* C10: a thread that left because the buffer-ready wait failed has stopped
\* its stream and has sent no notification; once it has ended the controller's
\* channel is disconnected, and the next poll spawns a replacement.
C10_WaitFailureRevived ==
    /\ [](\A t \in Threads :
            exitCause[t] = "wait" =>
                /\ Ended(t)
                /\ ~streaming[t]
                /\ notif[t] = 0
                /\ (pc[t] = "done" /\ device_change = t) => TryRecv = "Disconnected")
    /\ [][\A p \in Pids :
            (/\ device_change # NoThread
             /\ pc[device_change] = "done"
             /\ exitCause[device_change] = "wait"
             /\ Update(p)) =>
                /\ current_handle' = current_handle + 1
                /\ pc'[current_handle'] = "new"
                /\ cause'[current_handle'].kind = "disconnected"]_vars

\* C10 witness: the replacement of a thread that left on a wait failure.
C10_Witness ==
    \E t \in Threads :
        /\ cause[t].kind = "disconnected"
        /\ cause[t].after = "wait"
        /\ Alive(t)

\* C11: a failed open is not retried without the caller asking.  A poll for
\* the process already recorded, finding that the watched thread ended because
\* AudioThread::new failed, spawns no thread (so that the threads spawned stay
\* bounded when every open fails).
C11_FailedOpenNotRetried ==
    [][\A p \in Pids :
         (/\ device_change # NoThread
          /\ pc[device_change] = "done"
          /\ exitCause[device_change] = "panic"
          /\ p = current_pid
          /\ Update(p)) => current_handle' = current_handle]_vars

\* C16: the controller never waits on a device operation.  A capture thread
\* that starts or stops its stream does not hold the gate mutex while it does,
\* and a thread about to call start_stream() holds no mutex, so start(),
\* stop() and is_playing() are never kept waiting for a device call.
C16_NoDeviceCallUnderGate ==
    /\ [](\A t \in Threads : pc[t] = "restart1" => mutex # t)
    /\ [][\A t \in Threads : streaming'[t] # streaming[t] => mutex # t]_vars

\* C17: first-channel down-mix on the file path.  The samples that have
\* entered the accumulator are the channel-0 samples of the frames read so
\* far, in order and without a gap: the i-th of them (from 1) is stream
\* position (i - 1) * channels, and every frame begun has given its sample.
C17_FirstChannelOnly ==
    /\ \A i \in 1..Len(f_taken) : f_taken[i] = (i - 1) * f_channels
    /\ Len(f_taken) = (f_pos + f_channels - 1) \div f_channels

\* C14: latest-wins handoff through the shared slot.  The slot never holds
\* more than one batch and, once a window has been analysed, holds exactly the
\* batch of the latest one, whole; a render tick that post-processes uses that
\* batch, also when it has used an older one before, and the slot does not
\* change while the tick reads it.
C14_LatestWins ==
    /\ [](/\ Len(output_vector) <= 1
          /\ f_nAnalysed >= 1 => output_vector = <<FileBatch(f_nAnalysed)>>)
    /\ [][/\ (r_pc = "process" /\ r_pc' = "idle") =>
                current_render_data' = FinalData(<<FileBatch(f_nAnalysed)>>)
          /\ r_pc = "process" => output_vector' = output_vector]_vars

\* C14 witness: a tick has post-processed the second batch, which replaced
\* the first in the slot.
C14_Witness ==
    /\ current_render_data = FinalData(<<FileBatch(2)>>)
    /\ f_nAnalysed = 2
    /\ r_pc = "idle"

\* C15: the slot's lock is not held during post-processing.  While a render
\* tick does the mel remap, the averaging, the normalisation and the
\* placement, the renderer does not hold the slot's mutex.
C15_NoWorkUnderSlotLock ==
    r_pc = "process" => slot_holder # "renderer"

\* C18: bin frequency.  For a window of length L analysed at rate R the
\* frequency attached to bin k (k = 0 .. L div 2 - 1, before the audible-range
\* filter) is k * R / L.
C18_BinFrequency ==
    \A i \in 1..Len(fft_half) :
        /\ fft_half[i].amp.bin = i - 1
        /\ FracEq(fft_half[i].fr, Frac((i - 1) * fft_rate, Len(fft_data)))

\* C19: audible-range filter.  Every bin of a batch handed off has a frequency
\* strictly between 20 and 20000, the frequencies increase strictly along the
\* batch, and the batch has as many bins as the half spectrum has bins
\* strictly inside the range (each of them a bin of the half spectrum, in its
\* order), so none of those is dropped.
C19_AudibleRange ==
    /\ \A i \in 1..Len(fft_batch) :
         /\ fft_batch[i].fr.num > LowCut * fft_batch[i].fr.den
         /\ fft_batch[i].fr.num < HighCut * fft_batch[i].fr.den
         /\ fft_batch[i] = fft_half[fft_batch[i].amp.bin + 1]
         /\ i > 1 => /\ FracLess(fft_batch[i - 1].fr, fft_batch[i].fr)
                     /\ fft_batch[i - 1].amp.bin < fft_batch[i].amp.bin
    /\ Len(fft_batch) =
         Cardinality({k \in 1..Len(fft_half) :
                         /\ fft_half[k].fr.num > LowCut * fft_half[k].fr.den
                         /\ fft_half[k].fr.num < HighCut * fft_half[k].fr.den})

\* C19 witness: a 44100 Hz window has been analysed; the bins at 0, 10 and
\* 20 Hz and those from 20000 Hz up are gone, the batch runs from the bin at
\* 30 Hz to the bin at 19990 Hz.
C19_Witness ==
    /\ fft_rate = 44100
    /\ Len(fft_half) = 4410
    /\ Len(fft_batch) = 1997
    /\ fft_batch[1].amp.bin = 3
    /\ fft_batch[1997].amp.bin = 1999

\* C20: half spectrum.  Of the L transform outputs of a window exactly the
\* first L div 2 (L / 2 for even L) are kept, in order, before the
\* audible-range filter; and the analysis leaves the window as it was.
C20_HalfSpectrum ==
    /\ [](fft_half # <<>> =>
            /\ Len(fft_half) = Len(fft_data) \div 2
            /\ Len(fft_data) % 2 = 0 => 2 * Len(fft_half) = Len(fft_data)
            /\ LET out == FftProcess(fft_data) IN
               \A i \in 1..Len(fft_half) : fft_half[i].amp = out[i])
    /\ [][fft_half' # fft_half => fft_data' = fft_data /\ fft_data # <<>>]_vars

\* C20 witness: the second window of a 40 Hz stream (8 samples, starting at
\* sample 2) has been analysed: 4 bins, the window unchanged.
C20_Witness ==
    /\ fft_rate = 40
    /\ Len(fft_half) = 4
    /\ fft_data = StreamWindow(1, 8)
    /\ fft_half[4].amp = [bin |-> 3, len |-> 8, first |-> 2]

\* C12: a send whose peer is gone is ignored.  A step that analyses a window
\* goes on in the loop with the window drained by a quarter, whether or not
\* the batch receiver exists (the batch is queued only if it does); a thread
\* that finds the default device changed leaves with that cause, whether or
\* not its notification has a receiver (it is queued only if it has); and no
\* thread that got past AudioThread::new ever leaves by a panic.
C12_FailedSendIgnored ==
    /\ [](\A t \in Threads :
            (pc[t] = "exiting" /\ exitCause[t] = "panic") =>
                planned[t] = 0 /\ nAnalysed[t] = 0)
    /\ [][\A t \in Threads :
            /\ nAnalysed'[t] = nAnalysed[t] + 1 =>
                  /\ pc'[t] = "process"
                  /\ exitCause'[t] = exitCause[t]
                  /\ data'[t] = DrainQuarter(lastWindow'[t])
                  /\ sample_destination' =
                        IF rx_alive
                          THEN Append(sample_destination, Batch(t, nAnalysed'[t]))
                          ELSE sample_destination
            /\ (pc[t] = "devcheck" /\ pc'[t] # "devcheck"
                  /\ device_id[t] # defaultDevice) =>
                  /\ pc'[t] = "exiting"
                  /\ exitCause'[t] = "device"
                  /\ notif'[t] = notif[t] + (IF device_change = t THEN 1 ELSE 0)]_vars

\* C12 witness: both receivers are gone; a thread has analysed a window, whose
\* batch went nowhere, and is leaving after a device change, whose
\* notification went nowhere.
C12_Witness ==
    /\ ~rx_alive
    /\ ~ctl_alive
    /\ sample_destination = <<>>
    /\ \E t \in Threads :
         /\ pc[t] = "exiting"
         /\ exitCause[t] = "device"
         /\ nAnalysed[t] >= 1
         /\ notif[t] = 0

\* C13: batches reach the consumer in the order they were analysed.  The
\* batch channel is first in, first out, so the consumer receives in the order
\* of the sends: the batches sent are, in order, the batches analysed, short
\* of at most those whose send is still to come, also when a replacement
\* thread sends through a clone of the sender.  On the slot a render tick
\* that uses another batch than the tick before uses a later one.
C13_AnalysisOrder ==
    /\ [](IsPrefix(sample_destination, analysed))
    /\ [][(current_render_data # <<>> /\ current_render_data' # current_render_data) =>
             current_render_data'.of[1].seq > current_render_data.of[1].seq]_vars

\* C13 witness: the channel holds a batch of a thread and, after it, a batch
\* of the thread's replacement.
C13_Witness ==
    \E i, j \in 1..Len(sample_destination) :
        /\ i < j
        /\ sample_destination[i].src # sample_destination[j].src
        /\ cause[sample_destination[j].src].prev = sample_destination[i].src

\* C21: fixed bucket count.  A post-processing of a non-empty batch that
\* returns has produced exactly 150 buckets, whatever the number of bins.
C21_FixedBucketCount ==
    (r_recomputed /\ r_pc = "idle") => Len(r_buckets) = Buckets

\* C22: empty-bucket guard.  An average is never taken over zero bins: every
\* post-processing of a non-empty batch returns, and every bucket it formed
\* is a number.
C22_EmptyBucketGuard ==
    r_recomputed =>
        /\ r_pc = "idle"
        /\ \A i \in 1..Len(r_buckets) : r_buckets[i].den # 0

\* The curve on display was computed from the batch now in the slot.
CurveOfSlot == r_recomputed /\ ~r_fresh

\* C23: normalisation bound.  Once a batch with a non-zero magnitude has
\* been rendered, the curve has one point per bucket, every scaled magnitude
\* lies in [0, height] and at least one equals height (the bucket whose
\* normalised value is 1).
C23_NormalisationBound ==
    (CurveOfSlot /\ \E i \in 1..Len(SlotBins(output_vector)) :
                        SlotBins(output_vector)[i].amp > 0) =>
        /\ r_pc = "idle"
        /\ Len(current_render_data) = Len(r_buckets)
        /\ \A i \in 1..Len(current_render_data) :
              LET y == current_render_data[i][2] IN
              /\ y.den # 0
              /\ 0 <= y.num
              /\ y.num <= current_size[2] * y.den
        /\ \E i \in 1..Len(current_render_data) :
              current_render_data[i][2] = Frac(current_size[2], 1)

\* C24: y-axis inversion.  The y of every point of a computed curve is
\* height - normalised value * height - 1.
C24_YInverted ==
    (CurveOfSlot /\ r_pc = "idle") =>
        \A i \in 1..Len(current_render_data) :
            LET v == FracDiv(r_buckets[i], Largest(r_buckets))
                y == current_render_data[i][2]
                height == current_size[2]
            IN  v.den # 0 =>
                  /\ y.den # 0
                  /\ y.num * v.den = ((height - 1) * v.den - v.num * height) * y.den

\* C25: resize without new data.  A render with a size other than the last
\* one, with no batch stored since the last render and a curve on display,
\* rescales that curve by new / old in each dimension and does not compute
\* it again from the batch in the slot.
C25_ResizeRescales ==
    [][(/\ r_pc = "idle"
        /\ ~r_fresh
        /\ current_render_data # <<>>
        /\ current_size' # current_size)
       => /\ current_render_data' =
                Resize(current_render_data, current_size, current_size')
          /\ ~r_recomputed']_vars

\* C26: smoothing interpolation.  A curve computed from n buckets has the n
\* bucket points and two more between every adjacent pair: n + 2 * (n - 1).
C26_Interpolated ==
    (CurveOfSlot /\ r_pc = "idle") =>
        Len(current_render_data) = Len(r_buckets) + 2 * (Len(r_buckets) - 1)

\* C27: no batch, no change.  A render with the size of the last render that
\* finds the slot empty, or no batch stored since the last render, leaves
\* the curve as it was and returns.
C27_NoBatchNoChange ==
    [][(/\ r_pc = "idle"
        /\ SlotBins(output_vector) = <<>> \/ ~r_fresh
        /\ \E size \in Sizes : size = current_size /\ Render(size))
       => /\ current_render_data' = current_render_data
          /\ r_pc' = "idle"]_vars

\* A curve is on display, an empty batch was stored after it, and the render
\* that followed, at the same size, has returned with the curve kept.
C27_Witness ==
    /\ r_pc = "idle"
    /\ current_render_data # <<>>
    /\ SlotBins(output_vector) = <<>>
    /\ ~r_fresh /\ ~r_resized /\ ~r_recomputed

\* Index in the batch of a bin of largest magnitude, the window being a sine
\* of fft_tone Hz.
PeakIndex ==
    CHOOSE i \in 1..Len(fft_batch) :
        \A k \in 1..Len(fft_batch) :
            SineNorm(fft_batch[k].amp, fft_tone, fft_rate)
                <= SineNorm(fft_batch[i].amp, fft_tone, fft_rate)

\* C28: the 440 Hz scenario.  The batch of a window of 8820 samples of a
\* 440 Hz sine at 44100 Hz is not empty and its bin of largest magnitude
\* carries a frequency within 5 Hz of 440 Hz.
C28_Peak440 ==
    (fft_rate = 44100 /\ fft_tone = 440 /\ fft_half # <<>>) =>
        /\ Len(fft_data) = 8820
        /\ fft_batch # <<>>
        /\ LET fr == fft_batch[PeakIndex].fr IN
           /\ 435 * fr.den <= fr.num
           /\ fr.num <= 445 * fr.den

\* A capture thread is on its way to the gate or at it, before its first
\* start_stream().
AtGate(t) == pc[t] \in {"lock0", "wake0", "recheck0", "waiting0"}

\* C29: revival in the correct state.  A capture thread (the first or a
\* replacement) reads the gate when it reaches it: it goes on to start its
\* stream exactly when the gate is true, with no controller call in
\* between, and parks when the gate is false; it reaches its first
\* start_stream() from nowhere but that reading.  A thread on its way to the
\* gate while the gate is true gets to stream, unless a stop() closes the
\* gate or the thread ends first.
C29_RevivalTakesGate ==
    /\ [][\A t \in Threads :
            /\ (pc[t] = "recheck0" /\ pc'[t] # "recheck0") =>
                  /\ pc'[t] = (IF playing THEN "start0" ELSE "waiting0")
                  /\ playing' = playing
                  /\ lastCtl' = lastCtl
            /\ (pc'[t] = "start0" /\ pc[t] # "start0") => pc[t] = "recheck0"
            /\ (AtGate(t) /\ ~streaming[t]) => (streaming'[t] = FALSE)]_vars
    /\ \A t \in Threads :
          (AtGate(t) /\ playing) ~> (streaming[t] \/ ~playing \/ Ended(t))

\* A replacement thread streams with the gate open.
C29_Witness ==
    \E t \in Threads :
        /\ cause[t].kind # "none"
        /\ cause[t].prev # NoThread
        /\ streaming[t]
        /\ playing

C31_ResetAfterOpen ==
    [][(\E paths \in SongLists : Readable(paths[1]) /\ SelectSongs(paths))
       => /\ sink' = <<opened_songs'[1]>>
          /\ selected_song_idx' = 0]_vars

\* C32: change_current_song with the selected index changes nothing (queue,
\* paused state and index stay, and the call returns); with another index of
\* the list it either returns with the sink holding exactly that song,
\* playing, and the index recorded, or it does not return, which happens
\* only for a file that cannot be opened or decoded.
C32_SameIndexNoChange ==
    [][\A item \in 0..(MaxSongs - 1) :
          SongListBox(item) =>
              IF item = selected_song_idx
                THEN /\ UNCHANGED <<sink, sink_paused, selected_song_idx>>
                     /\ song_pc' = "run"
                ELSE /\ selected_song_idx' = item
                     /\ song_pc' = "run" =>
                            /\ sink' = <<opened_songs[item + 1]>>
                            /\ ~sink_paused'
                     /\ song_pc' # "run" => ~Readable(opened_songs[item + 1])]_vars

\* The second song of the list was selected after the first: the sink holds
\* it alone and plays.
C32_Witness ==
    /\ song_pc = "run"
    /\ Len(opened_songs) = 2
    /\ selected_song_idx = 1
    /\ sink = <<opened_songs[2]>>
    /\ ~sink_paused

\* C33: bucket averaging terminates.  No render is left inside the averaging
\* loop, and the buckets of a computed curve are at most as many as the bins
\* of the batch, each pass having consumed at least one bin.
C33_AveragingTerminates ==
    /\ r_pc # "hung"
    /\ CurveOfSlot => Len(r_buckets) <= Len(SlotBins(output_vector))

\* C37: silence is handled.  Every coordinate of a curve computed from a
\* non-empty batch whose magnitudes are all zero is a number: neither x nor
\* y is the result of a division by zero.
C37_SilenceHandled ==
    (/\ CurveOfSlot
     /\ r_pc = "idle"
     /\ \A i \in 1..Len(SlotBins(output_vector)) :
            SlotBins(output_vector)[i].amp = 0) =>
        \A i \in 1..Len(current_render_data) :
            /\ current_render_data[i][1].den # 0
            /\ current_render_data[i][2].den # 0

\* A capture thread is inside Condvar::wait on the gate: blocked until a
\* notification (or a spurious wake-up), or woken and taking the mutex again.
InWait(t) == pc[t] \in {"waiting0", "wake0", "waiting1", "wake1"}

\* C34: no lost wake-up on the gate.  No thread is blocked waiting for a
\* notification while the gate is true: start() writes the gate and notifies
\* with the mutex held, and the thread's test and its wait are one step under
\* that mutex.  A thread inside the wait while the gate is true leaves it
\* and has its stream started, unless a stop() closes the gate first.
C34_NoLostWakeup ==
    /\ [](\A t \in Threads : Parked(t) => ~playing)
    /\ \A t \in Threads :
          (InWait(t) /\ playing) ~> (streaming[t] \/ ~playing)

\* start() has found a thread parked after a stop(): it is woken, the gate is
\* true, and its stream has not been restarted yet.
C34_Witness ==
    \E t \in Threads :
        /\ pc[t] = "wake1"
        /\ playing
        /\ lastCtl = "start"
        /\ ~streaming[t]

\* C35: a parked capture thread is silent.  A thread inside the wait on the
\* gate has its stream stopped or never started; while it is there it reads
\* no frames, analyses no window and sends no batch; it leaves the wait for
\* its stream only past a test that finds the gate true, and a stream is
\* started nowhere but after such a test.
C35_ParkedIsSilent ==
    /\ [](\A t \in Threads : InWait(t) => ~streaming[t])
    /\ [][\A t \in Threads :
            /\ InWait(t) =>
                  /\ streaming'[t] = FALSE
                  /\ delivered'[t] = delivered[t]
                  /\ consumed'[t] = consumed[t]
                  /\ nAnalysed'[t] = nAnalysed[t]
                  /\ \/ sample_destination' = sample_destination
                     \/ sample_destination'[Len(sample_destination')].src # t
                  /\ pc'[t] \in {"waiting0", "wake0", "recheck0",
                                 "waiting1", "wake1", "recheck1"}
            /\ (pc[t] \in {"recheck0", "recheck1"} /\ pc'[t] # pc[t] /\ ~playing)
                  => Parked(t)'
            /\ (streaming'[t] /\ ~streaming[t]) => pc[t] \in {"start0", "restart1"}]_vars

\* A thread that has taken in audio is parked after a stop(), its stream
\* stopped.
C35_Witness ==
    \E t \in Threads :
        /\ pc[t] = "waiting1"
        /\ ~playing
        /\ ~streaming[t]
        /\ delivered[t] > 0

\* C36: every exit path stops the stream first.  A capture thread that has
\* left capture_loop because the wait failed or because the default device
\* changed has called stop_stream since its last start_stream: its stream is
\* stopped.
C36_ExitStopsStream ==
    \A t \in Threads :
        (pc[t] = "exiting" /\ exitCause[t] \in {"wait", "device"}) => ~streaming[t]

\* C38: the file filter's 16-bit sample counter stays faithful.  It never
\* exceeds 65535, and at every moment, also right after it was reset at the
\* end of a window, it is congruent modulo the channel count to the channel
\* index of the next sample the decoder will deliver.
C38_CounterFaithful ==
    source = "file" =>
        /\ counter <= U16 - 1
        /\ counter % f_channels = f_pos % f_channels
====
